---- MODULE Spec2Model ----
(***************************************************************************)
(* A model of neosynth's SpeechMixer (src/src/lib.rs): the speech-element  *)
(* queue, the dispatch procedure (process_queue / process_speech_element / *)
(* speak_content), the three callers of the dispatcher (speak, the         *)
(* MediaEnded / MediaFailed handlers, stop) and the media player they      *)
(* drive.  Every queue operation, every sink notification, every           *)
(* synthesize / open / SetSource call and every read of the playback state *)
(* is one atomic step of the thread that performs it, so that the threads  *)
(* interleave as the lock-free code lets them.                             *)
(*                                                                         *)
(* The player is an external engine.  It is modelled by the interface the  *)
(* code uses: SetSource starts playback (SetAutoPlay(true), lib.rs:299),   *)
(* a playing source ends or fails once, the state after an ended, failed   *)
(* or empty source is None, and the handler registered at lib.rs:314-329   *)
(* is invoked once per ending or failure.  Failures of get_state, Pause    *)
(* and of building the empty stream are left out.                          *)
(***************************************************************************)
EXTENDS Integers, Sequences, FiniteSets, TLC

\* ---------------------------------------------------------------- bounds
\* the concurrent specification: elements pushed, speak calls, stop calls
MaxElems == 2
MaxSpeaks == 2
MaxStops == 1
\* the single-caller specification
SeqElems == 3
SeqSpeaks == 3
SeqStops == 2
\* the rate / voice specification and the state-change specification:
\* elements pushed, speak calls, stop calls, state-change notifications raised
ApiElems == 1
ApiSpeaks == 1
ApiStops == 1
MaxEvents == 3

\* the threads that call the public operations, and the threads the player
\* delivers MediaEnded / MediaFailed on
Callers == {"c1", "c2"}
Handlers == {"h1", "h2"}
Threads == Callers \cup Handlers
NoThread == "none"
\* ids an element can get in either specification
Ids == 1..(MaxElems + SeqElems)

\* ------------------------------------------------------------ data model
\* enum SpeechElement
ElementKinds == {"Text", "Ssml", "Bookmark", "Audio"}

\* enum MediaPlaybackState, as matched in From<MediaPlaybackState>
PlaybackStates == {"None", "Opening", "Buffering", "Playing", "Paused"}

\* a faulty variant of SynthStateOf: a paused player counts as Ready
SynthStateOf_PausedIsReady(ps) ==
    IF ps \in {"Buffering", "Opening", "Playing"} THEN "Busy" ELSE "Ready"

\* impl From<MediaPlaybackState> for SynthState
SynthStateOf(ps) ==
    IF ps \in {"Buffering", "Opening", "Playing"} THEN "Busy"
    ELSE IF ps = "Paused" THEN "Paused"
    ELSE "Ready"

NoElem == [id |-> 0, kind |-> "none"]
\* the player's source: an element id, NoSource before any SetSource,
\* EmptySource for the empty stream stop() substitutes
NoSource == 0
EmptySource == -1

NoAlone == [t |-> NoThread, n |-> 0, first |-> <<>>, second |-> <<>>]

\* ------------------------------------------------------------ f64 values
\* The speaking rate is an f64 and get_rate / set_rate scale it by the f64
\* nearest to 0.06, so the arithmetic is IEEE 754 binary64: a 53-bit
\* significand, round to nearest, ties to even.  A finite f64 is
\* [neg, hi, lo, e] with value (-1)^neg * m * 2^e, where the significand
\* m = hi * Base^2 + lo is zero or has exactly MantissaBits bits.
\* Significands and their products do not fit a machine integer of the
\* checker, so the arithmetic works on natural numbers held as vectors of
\* Limbs limbs of LimbBits bits, least significant first.  Exponent overflow,
\* subnormals, infinities and NaN do not arise for the rates used and are
\* left out.
MantissaBits == 53
LimbBits == 13
Limbs == 9
Base == 2 ^ LimbBits
\* the division produces DigitBits * DivDigits = MantissaBits + 2 quotient bits
DigitBits == 5
DivDigits == 11

Only(S) == CHOOSE x \in S : TRUE
LimbOf(x, i) == IF i >= 1 /\ i <= Limbs THEN x[i] ELSE 0
BigZero == [i \in 1..Limbs |-> 0]
\* a natural number below Base^2
BigOf(n) == [i \in 1..Limbs |-> IF i <= 2 THEN (n \div (Base ^ (i - 1))) % Base ELSE 0]

\* carries (or borrows) propagated through a vector of column sums
Normalize(cols) ==
    LET cy[i \in 0..Limbs] == IF i = 0 THEN 0 ELSE (cols[i] + cy[i - 1]) \div Base
    IN [i \in 1..Limbs |-> (cols[i] + cy[i - 1]) % Base]

BigAdd(x, y) == Normalize([i \in 1..Limbs |-> x[i] + y[i]])
\* x - y for x >= y
BigSub(x, y) == Normalize([i \in 1..Limbs |-> x[i] - y[i]])
BigGeq(x, y) ==
    \/ x = y
    \/ \E i \in 1..Limbs : x[i] > y[i] /\ \A j \in (i + 1)..Limbs : x[j] = y[j]
BigMul(x, y) ==
    Normalize([k \in 1..Limbs |->
        LET s[i \in 0..k] == IF i = 0 THEN 0 ELSE s[i - 1] + x[i] * y[k + 1 - i]
        IN s[k]])
\* x times a natural number below 2^DigitBits + 1
BigScale(y, g) == Normalize([i \in 1..Limbs |-> y[i] * g])
\* x * 2^d and floor(x / 2^d)
BigShl(x, d) ==
    LET q == d \div LimbBits
        r == d % LimbBits
    IN [i \in 1..Limbs |->
            (LimbOf(x, i - q) % (2 ^ (LimbBits - r))) * (2 ^ r)
            + LimbOf(x, i - q - 1) \div (2 ^ (LimbBits - r))]
BigShr(x, d) ==
    LET q == d \div LimbBits
        r == d % LimbBits
    IN [i \in 1..Limbs |->
            LimbOf(x, i + q) \div (2 ^ r)
            + (LimbOf(x, i + q + 1) % (2 ^ r)) * (2 ^ (LimbBits - r))]
\* number of bits of x, and bit j of x (bit 0 is the least significant)
BitLen(x) ==
    IF x = BigZero THEN 0
    ELSE LET t == CHOOSE i \in 1..Limbs : x[i] # 0 /\ \A j \in (i + 1)..Limbs : x[j] = 0
             b == CHOOSE k \in 1..LimbBits : 2 ^ (k - 1) <= x[t] /\ x[t] < 2 ^ k
         IN LimbBits * (t - 1) + b
BitOf(x, j) == (x[(j \div LimbBits) + 1] \div (2 ^ (j % LimbBits))) % 2

\* long division, DigitBits quotient bits a step: r < y on entry
RECURSIVE DivLoop(_, _, _, _)
DivLoop(r, y, q, n) ==
    IF n = 0 THEN [q |-> q, r |-> r]
    ELSE Only({ Only({ Only({ DivLoop(r3, y, q3, n - 1) :
                        r3 \in {BigSub(r2, BigScale(y, g))},
                        q3 \in {BigAdd(BigShl(q, DigitBits), BigOf(g))} }) :
                    g \in {CHOOSE d \in 0..(2 ^ DigitBits - 1) :
                            BigGeq(r2, BigScale(y, d)) /\ ~BigGeq(r2, BigScale(y, d + 1))} }) :
                r2 \in {BigShl(r, DigitBits)} })
\* floor(x * 2^(DigitBits * DivDigits) / y) and the remainder, for x < 2y
BigDivScaled(x, y) ==
    LET ge == BigGeq(x, y)
    IN DivLoop(IF ge THEN BigSub(x, y) ELSE x, y, BigOf(IF ge THEN 1 ELSE 0), DivDigits)

\* the f64 nearest to n * 2^e; sticky says that bits below n were cut off
RoundNearestEven(n, e, sticky) ==
    LET d == BitLen(n) - MantissaBits IN
    IF n = BigZero THEN [m |-> BigZero, e |-> 0]
    ELSE IF d <= 0 THEN [m |-> BigShl(n, -d), e |-> e + d]
    ELSE LET kept == BigShr(n, d)
             rest == sticky \/ BigShl(BigShr(n, d - 1), d - 1) # n
             up == BitOf(n, d - 1) = 1 /\ (rest \/ BitOf(kept, 0) = 1)
             k2 == IF up THEN BigAdd(kept, BigOf(1)) ELSE kept
         IN IF BitLen(k2) > MantissaBits
            THEN [m |-> BigShr(k2, 1), e |-> e + d + 1]
            ELSE [m |-> k2, e |-> e + d]

\* the f64 with sign neg and the rounded significand and exponent of r
F64Pack(neg, r) ==
    [neg |-> neg, hi |-> r.m[3] + r.m[4] * Base + r.m[5] * Base * Base,
     lo |-> r.m[1] + r.m[2] * Base, e |-> r.e]
\* the significand of an f64 as a natural number
F64Sig(x) ==
    [i \in 1..Limbs |->
        IF i = 1 THEN x.lo % Base
        ELSE IF i = 2 THEN x.lo \div Base
        ELSE IF i = 3 THEN x.hi % Base
        ELSE IF i = 4 THEN (x.hi \div Base) % Base
        ELSE IF i = 5 THEN x.hi \div (Base * Base)
        ELSE 0]

\* an integer literal as f64
F64Of(n) ==
    Only({ F64Pack(n < 0, r) :
            r \in {RoundNearestEven(BigOf(IF n < 0 THEN -n ELSE n), 0, FALSE)} })

\* f64 multiplication: the exact product, rounded
F64Mul(x, y) ==
    Only({ F64Pack(x.neg # y.neg, RoundNearestEven(p, x.e + y.e, FALSE)) :
            p \in {BigMul(F64Sig(x), F64Sig(y))} })

\* f64 division by a non-zero divisor: the exact quotient, rounded
F64Div(x, y) ==
    Only({ F64Pack(x.neg # y.neg,
                   RoundNearestEven(dm.q, x.e - y.e - DigitBits * DivDigits, dm.r # BigZero)) :
            dm \in {BigDivScaled(xm, ym) : xm \in {F64Sig(x)}, ym \in {F64Sig(y)}} })

\* the literal 0.06 of get_rate and set_rate: the f64 nearest to 6/100
RateUnit == F64Div(F64Of(6), F64Of(100))
\* the literal -1.0 get_rate answers without the prosody contract
NoRate == F64Of(-1)
\* SpeechSynthesizerOptions.SpeakingRate of a new synthesizer
DefaultRate == F64Of(1)
\* the rates set_rate is called with: 0.5, 1.0, 2.0, 9.0, 50.0
RateValues == {F64Div(F64Of(1), F64Of(2)), F64Of(1), F64Of(2), F64Of(9), F64Of(50)}
\* value * 0.06, as set_rate hands it to SetSpeakingRate (tabulated once)
ScaledRate == [r \in RateValues |-> F64Mul(r, RateUnit)]
EngineRates == {DefaultRate} \cup {ScaledRate[r] : r \in RateValues}
\* SpeakingRate() / 0.06, as get_rate answers (tabulated once)
ReportedRate == [x \in EngineRates |-> F64Div(x, RateUnit)]

\* Neosynth::get_voices: the ids of SpeechSynthesizer::AllVoices()
get_voices == {"v1", "v2"}
\* the ids set_voice_str is called with
VoiceIds == get_voices \cup {"v9"}
\* SpeechSynthesizer.Voice of a new synthesizer
DefaultVoice == "v1"

NewEngine(p) == [prosody |-> p, voice |-> DefaultVoice, rate |-> DefaultRate]
NoCall == [op |-> "none", id |-> "none", ret |-> "none", got |-> NoRate,
           set |-> FALSE, setr |-> NoRate]
NoEvents == [reported |-> "None", pending |-> 0, raised |-> 0, seen |-> "none",
             told |-> 0, last |-> "none"]

VARIABLES
    queue,    \* SpeechMixer.speech_queue, head first
    nextId,   \* identity given to the next pushed element (history)
    pstate,   \* player.PlaybackSession().PlaybackState()
    source,   \* the player's current source
    th,       \* per thread: the operation it runs and its position in it
    hist,     \* history: what was pushed, popped, dispatched, dropped, completed
    nSpeak,   \* speak calls started (history)
    nStop,    \* stop calls started (history)
    hfail,    \* a notification-triggered dispatch failed, no speak/stop since
    alone,    \* history: stop calls run back to back by one thread, undisturbed
    engine,   \* the platform's prosody contract and the synthesizer's voice and speaking rate
    call,     \* history: the last rate / voice call, its result, the last rate set
    events    \* PlaybackStateChanged: raised by the player, read and forwarded by the handler

vars == <<queue, nextId, pstate, source, th, hist, nSpeak, nStop, hfail, alone, engine, call, events>>

\* what the dispatch procedure and the player's MediaEnded / MediaFailed side leave alone
aside == <<engine, call, events>>
\* the SpeechMixer, its player and their history
mixer == <<queue, nextId, pstate, source, th, hist, nSpeak, nStop, hfail, alone>>

IdleThread == [op |-> "none", pc |-> "idle", elem |-> NoElem, pass |-> <<>>, ret |-> "none"]

MixerInit ==
    /\ queue = <<>>
    /\ nextId = 1
    /\ pstate = "None"
    /\ source = NoSource
    /\ th = [t \in Threads |-> IdleThread]
    /\ hist = [pops |-> [i \in Ids |-> 0],              \* times taken off the queue
               uses |-> [i \in Ids |-> 0],              \* times synthesized or opened
               disp |-> <<>>,                          \* bookmark notified / SetSource applied
               bms |-> {},                             \* bookmarks the sink was notified of
               dropped |-> {},                         \* discarded by stop's drain
               ended |-> {},                           \* sources whose notification was delivered
               deferred |-> FALSE]                     \* a speak only enqueued, nothing popped since
    /\ nSpeak = 0
    /\ nStop = 0
    /\ hfail = FALSE
    /\ alone = NoAlone

\* the state after Neosynth::new on a platform with the prosody contract
Init ==
    /\ MixerInit
    /\ engine = NewEngine(TRUE)
    /\ call = NoCall
    /\ events = NoEvents

\* --------------------------------------------------------------- helpers
\* SpeechMixer::get_state
get_state == SynthStateOf(pstate)

\* where process_speech_element goes for a popped element
PcFor(kind) ==
    CASE kind = "Text" -> "synth"
      [] kind = "Ssml" -> "synth"
      [] kind = "Bookmark" -> "bm"
      [] kind = "Audio" -> "open"

\* the operation of thread t returns r to its caller; a handler's result
\* is dropped by .ok()
Returned(t, r) ==
    [th[t] EXCEPT !.pc = "idle", !.elem = NoElem, !.pass = <<>>,
                  !.ret = IF th[t].op = "handler" THEN "none" ELSE r]

\* SegQueue::pop on a non-empty queue
PopRest(q) == Tail(q)

\* MediaPlayer::Pause
PausedState(ps) == IF SynthStateOf(ps) = "Busy" THEN "Paused" ELSE ps

\* MediaPlayer::Play
ResumedState(ps) == IF ps = "Paused" THEN "Playing" ELSE ps

\* ------------------------------------------------------------------ speak
\* Neosynth::speak / SpeechMixer::speak is entered
SpeakBegin(t) ==
    /\ t \in Callers
    /\ th[t].pc = "idle"
    /\ th' = [th EXCEPT ![t] = [op |-> "speak", pc |-> "push", elem |-> NoElem, pass |-> <<>>, ret |-> "none"]]
    /\ nSpeak' = nSpeak + 1
    /\ hfail' = FALSE
    /\ alone' = NoAlone
    /\ UNCHANGED aside
    /\ UNCHANGED <<queue, nextId, pstate, source, hist, nStop>>

\* a faulty variant of SpeakPush: the element is put at the head of the queue
SpeakPush_AtHead(t, k) ==
    /\ th[t].op = "speak"
    /\ th[t].pc = "push"
    /\ queue' = <<[id |-> nextId, kind |-> k]>> \o queue
    /\ nextId' = nextId + 1
    /\ alone' = NoAlone
    /\ UNCHANGED aside
    /\ UNCHANGED <<pstate, source, th, hist, nSpeak, nStop, hfail>>

\* utterance.into_iter().for_each(|elem| self.speech_queue.push(elem)): one push
SpeakPush(t, k) ==
    /\ th[t].op = "speak"
    /\ th[t].pc = "push"
    /\ queue' = Append(queue, [id |-> nextId, kind |-> k])
    /\ nextId' = nextId + 1
    /\ alone' = NoAlone
    /\ UNCHANGED aside
    /\ UNCHANGED <<pstate, source, th, hist, nSpeak, nStop, hfail>>

\* a faulty variant of SpeakGetState: the dispatch is tried whatever the state
SpeakGetState_AnyState(t) ==
    /\ th[t].op = "speak"
    /\ th[t].pc = "push"
    /\ th' = [th EXCEPT ![t] = [@ EXCEPT !.pc = "spop"]]
    /\ alone' = NoAlone
    /\ UNCHANGED aside
    /\ UNCHANGED <<queue, nextId, pstate, source, hist, nSpeak, nStop, hfail>>

\* match self.get_state()? { Ready => pop .., _ => Ok(()) }: the read of the state
SpeakGetState(t) ==
    /\ th[t].op = "speak"
    /\ th[t].pc = "push"
    /\ th' = [th EXCEPT ![t] =
                IF get_state = "Ready" THEN [@ EXCEPT !.pc = "spop"]
                ELSE Returned(t, "ok")]
    /\ hist' = [hist EXCEPT !.deferred = IF get_state = "Ready" THEN @ ELSE TRUE]
    /\ alone' = NoAlone
    /\ UNCHANGED aside
    /\ UNCHANGED <<queue, nextId, pstate, source, nSpeak, nStop, hfail>>

\* a faulty variant of SpeakPop: an empty queue is answered as process_queue answers it
SpeakPop_NotifiesReady(t) ==
    /\ th[t].op = "speak"
    /\ th[t].pc = "spop"
    /\ IF queue = <<>>
       THEN /\ th' = [th EXCEPT ![t] = [@ EXCEPT !.pc = "ready"]]
            /\ UNCHANGED <<queue, hist>>
       ELSE /\ queue' = PopRest(queue)
            /\ th' = [th EXCEPT ![t] = [@ EXCEPT !.pc = PcFor(Head(queue).kind), !.elem = Head(queue),
                                                       !.pass = Append(@, Head(queue).id)]]
            /\ hist' = [hist EXCEPT !.pops[Head(queue).id] = @ + 1, !.deferred = FALSE]
    /\ alone' = NoAlone
    /\ UNCHANGED aside
    /\ UNCHANGED <<nextId, pstate, source, nSpeak, nStop, hfail>>

\* Ready => match self.speech_queue.pop() { Some(e) => process_speech_element(e), None => Ok(()) }
SpeakPop(t) ==
    /\ th[t].op = "speak"
    /\ th[t].pc = "spop"
    /\ IF queue = <<>>
       THEN /\ th' = [th EXCEPT ![t] = Returned(t, "ok")]
            /\ UNCHANGED <<queue, hist>>
       ELSE /\ queue' = PopRest(queue)
            /\ th' = [th EXCEPT ![t] = [@ EXCEPT !.pc = PcFor(Head(queue).kind), !.elem = Head(queue),
                                                       !.pass = Append(@, Head(queue).id)]]
            /\ hist' = [hist EXCEPT !.pops[Head(queue).id] = @ + 1, !.deferred = FALSE]
    /\ alone' = NoAlone
    /\ UNCHANGED aside
    /\ UNCHANGED <<nextId, pstate, source, nSpeak, nStop, hfail>>

\* --------------------------------------------------------------- dispatch
\* history kept for a stop call that no other thread and no player event
\* has disturbed: what the call left behind and how its dispatch ended
AloneStep(t) == IF alone.t = t THEN alone ELSE NoAlone

AloneReturn(t, q, s, p, how) ==
    IF alone.t = t /\ th[t].op = "stop"
    THEN IF alone.n = 0
         THEN [alone EXCEPT !.n = 1, !.first = <<q, s, p, how>>]
         ELSE [alone EXCEPT !.n = 2, !.second = <<q, s, p, how>>]
    ELSE NoAlone

\* a faulty variant of Failed: the element that failed is put back for a retry
Failed_Requeues(t) ==
    /\ th' = [th EXCEPT ![t] = Returned(t, "err")]
    /\ queue' = Append(queue, th[t].elem)
    /\ hfail' = IF th[t].op = "handler" THEN TRUE ELSE hfail
    /\ alone' = AloneReturn(t, queue, source, pstate, "err")
    /\ UNCHANGED aside
    /\ UNCHANGED <<nextId, pstate, source, nSpeak, nStop>>

\* an error leaves the dispatch: returned by speak and stop, dropped by the handlers
Failed(t) ==
    /\ th' = [th EXCEPT ![t] = Returned(t, "err")]
    /\ hfail' = IF th[t].op = "handler" THEN TRUE ELSE hfail
    /\ alone' = AloneReturn(t, queue, source, pstate, "err")
    /\ UNCHANGED aside
    /\ UNCHANGED <<queue, nextId, pstate, source, nSpeak, nStop>>

\* a faulty variant of ProcessQueue: the head is read and left in the queue
ProcessQueue_Peeks(t) ==
    /\ th[t].pc = "pq"
    /\ IF queue = <<>>
       THEN /\ th' = [th EXCEPT ![t] = [@ EXCEPT !.pc = "ready"]]
            /\ UNCHANGED <<queue, hist>>
       ELSE /\ queue' = queue
            /\ th' = [th EXCEPT ![t] = [@ EXCEPT !.pc = PcFor(Head(queue).kind), !.elem = Head(queue),
                                                       !.pass = Append(@, Head(queue).id)]]
            /\ hist' = [hist EXCEPT !.pops[Head(queue).id] = @ + 1, !.deferred = FALSE]
    /\ alone' = AloneStep(t)
    /\ UNCHANGED aside
    /\ UNCHANGED <<nextId, pstate, source, nSpeak, nStop, hfail>>

\* SpeechMixer::process_queue: match self.speech_queue.pop()
ProcessQueue(t) ==
    /\ th[t].pc = "pq"
    /\ IF queue = <<>>
       THEN /\ th' = [th EXCEPT ![t] = [@ EXCEPT !.pc = "ready"]]
            /\ UNCHANGED <<queue, hist>>
       ELSE /\ queue' = PopRest(queue)
            /\ th' = [th EXCEPT ![t] = [@ EXCEPT !.pc = PcFor(Head(queue).kind), !.elem = Head(queue),
                                                       !.pass = Append(@, Head(queue).id)]]
            /\ hist' = [hist EXCEPT !.pops[Head(queue).id] = @ + 1, !.deferred = FALSE]
    /\ alone' = AloneStep(t)
    /\ UNCHANGED aside
    /\ UNCHANGED <<nextId, pstate, source, nSpeak, nStop, hfail>>

\* None => { self.event_sink.on_state_changed(SynthState::Ready); Ok(()) }
NotifyReady(t) ==
    /\ th[t].pc = "ready"
    /\ UNCHANGED hist
    /\ th' = [th EXCEPT ![t] = Returned(t, "ok")]
    /\ alone' = AloneReturn(t, queue, source, pstate, "ready")
    /\ UNCHANGED aside
    /\ UNCHANGED <<queue, nextId, pstate, source, nSpeak, nStop, hfail>>

\* a faulty variant of NotifyBookmark: the dispatch returns after the notification
NotifyBookmark_Returns(t) ==
    /\ th[t].pc = "bm"
    /\ hist' = [hist EXCEPT !.disp = Append(@, th[t].elem.id), !.bms = @ \cup {th[t].elem.id}]
    /\ th' = [th EXCEPT ![t] = Returned(t, "ok")]
    /\ alone' = AloneReturn(t, queue, source, pstate, "bm")
    /\ UNCHANGED aside
    /\ UNCHANGED <<queue, nextId, pstate, source, nSpeak, nStop, hfail>>

\* SpeechElement::Bookmark(b) => { self.event_sink.on_bookmark_reached(b); self.process_queue() }
NotifyBookmark(t) ==
    /\ th[t].pc = "bm"
    /\ hist' = [hist EXCEPT !.disp = Append(@, th[t].elem.id), !.bms = @ \cup {th[t].elem.id}]
    /\ th' = [th EXCEPT ![t] = [@ EXCEPT !.pc = "pq", !.elem = NoElem]]
    /\ alone' = AloneStep(t)
    /\ UNCHANGED aside
    /\ UNCHANGED <<queue, nextId, pstate, source, nSpeak, nStop, hfail>>

\* speak_content: let stream = self.generate_speech_stream(text, is_ssml)?
Synthesize(t, ok) ==
    /\ th[t].pc = "synth"
    /\ hist' = [hist EXCEPT !.uses[th[t].elem.id] = @ + 1]
    /\ IF ok
       THEN /\ th' = [th EXCEPT ![t] = [@ EXCEPT !.pc = "setsrc"]]
            /\ alone' = AloneStep(t)
            /\ UNCHANGED aside
            /\ UNCHANGED <<queue, nextId, pstate, source, nSpeak, nStop, hfail>>
       ELSE Failed(t)

\* SpeechElement::Audio(f) => StorageFile::GetFileFromPathAsync(f)?.get()?
OpenFile(t, ok) ==
    /\ th[t].pc = "open"
    /\ hist' = [hist EXCEPT !.uses[th[t].elem.id] = @ + 1]
    /\ IF ok
       THEN /\ th' = [th EXCEPT ![t] = [@ EXCEPT !.pc = "setsrc"]]
            /\ alone' = AloneStep(t)
            /\ UNCHANGED aside
            /\ UNCHANGED <<queue, nextId, pstate, source, nSpeak, nStop, hfail>>
       ELSE Failed(t)

\* a faulty variant of SetSource: the dispatch goes on to the next element at once
SetSource_KeepsDraining(t, ok) ==
    /\ th[t].pc = "setsrc"
    /\ ok
    /\ source' = th[t].elem.id
    /\ pstate' = "Opening"
    /\ hist' = [hist EXCEPT !.disp = Append(@, th[t].elem.id)]
    /\ th' = [th EXCEPT ![t] = [@ EXCEPT !.pc = "pq", !.elem = NoElem]]
    /\ alone' = AloneStep(t)
    /\ UNCHANGED aside
    /\ UNCHANGED <<queue, nextId, nSpeak, nStop, hfail>>

\* self.player.SetSource(&MediaSource::CreateFrom..(..)?)?; Ok(())
SetSource(t, ok) ==
    /\ th[t].pc = "setsrc"
    /\ IF ok
       THEN /\ source' = th[t].elem.id
            /\ pstate' = "Opening"
            /\ hist' = [hist EXCEPT !.disp = Append(@, th[t].elem.id)]
            /\ th' = [th EXCEPT ![t] = Returned(t, "ok")]
            /\ alone' = AloneReturn(t, queue, th[t].elem.id, "Opening", "src")
            /\ UNCHANGED aside
            /\ UNCHANGED <<queue, nextId, nSpeak, nStop, hfail>>
       ELSE Failed(t) /\ UNCHANGED hist

\* ------------------------------------------------------------------- stop
\* Neosynth::stop is entered
StopBegin(t) ==
    /\ t \in Callers
    /\ th[t].pc = "idle"
    /\ th' = [th EXCEPT ![t] = [op |-> "stop", pc |-> "pause", elem |-> NoElem, pass |-> <<>>, ret |-> "none"]]
    /\ nStop' = nStop + 1
    /\ hfail' = FALSE
    /\ alone' = IF alone.t = t /\ alone.n = 1 THEN alone ELSE [NoAlone EXCEPT !.t = t]
    /\ UNCHANGED aside
    /\ UNCHANGED <<queue, nextId, pstate, source, hist, nSpeak>>

\* self.pause()?
StopPause(t) ==
    /\ th[t].op = "stop"
    /\ th[t].pc = "pause"
    /\ pstate' = PausedState(pstate)
    /\ th' = [th EXCEPT ![t] = [@ EXCEPT !.pc = "drain"]]
    /\ alone' = AloneStep(t)
    /\ UNCHANGED aside
    /\ UNCHANGED <<queue, nextId, source, hist, nSpeak, nStop, hfail>>

\* a faulty variant of StopDrain: the queued elements are not dropped
StopDrain_Skips(t) ==
    /\ th[t].op = "stop"
    /\ th[t].pc = "drain"
    /\ th' = [th EXCEPT ![t] = [@ EXCEPT !.pc = "empty"]]
    /\ alone' = AloneStep(t)
    /\ UNCHANGED aside
    /\ UNCHANGED <<queue, nextId, pstate, source, hist, nSpeak, nStop, hfail>>

\* a faulty variant of StopDrain: the loop ends after its first pop
StopDrain_OnePop(t) ==
    /\ th[t].op = "stop"
    /\ th[t].pc = "drain"
    /\ th' = [th EXCEPT ![t] = [@ EXCEPT !.pc = "empty"]]
    /\ IF queue = <<>>
       THEN UNCHANGED <<queue, hist>>
       ELSE /\ queue' = PopRest(queue)
            /\ hist' = [hist EXCEPT !.pops[Head(queue).id] = @ + 1, !.dropped = @ \cup {Head(queue).id},
                                    !.deferred = FALSE]
    /\ alone' = AloneStep(t)
    /\ UNCHANGED aside
    /\ UNCHANGED <<nextId, pstate, source, nSpeak, nStop, hfail>>

\* loop { if self.mixer.speech_queue.pop().is_none() { break; } }: one pop
StopDrain(t) ==
    /\ th[t].op = "stop"
    /\ th[t].pc = "drain"
    /\ IF queue = <<>>
       THEN /\ th' = [th EXCEPT ![t] = [@ EXCEPT !.pc = "empty"]]
            /\ UNCHANGED <<queue, hist>>
       ELSE /\ queue' = PopRest(queue)
            /\ hist' = [hist EXCEPT !.pops[Head(queue).id] = @ + 1, !.dropped = @ \cup {Head(queue).id},
                                    !.deferred = FALSE]
            /\ UNCHANGED th
    /\ alone' = AloneStep(t)
    /\ UNCHANGED aside
    /\ UNCHANGED <<nextId, pstate, source, nSpeak, nStop, hfail>>

\* self.mixer.player.SetSource(<empty stream>)?; then self.mixer.process_queue()
StopSetEmpty(t) ==
    /\ th[t].op = "stop"
    /\ th[t].pc = "empty"
    /\ source' = EmptySource
    /\ pstate' = "None"
    /\ UNCHANGED hist
    /\ th' = [th EXCEPT ![t] = [@ EXCEPT !.pc = "pq"]]
    /\ alone' = AloneStep(t)
    /\ UNCHANGED aside
    /\ UNCHANGED <<queue, nextId, nSpeak, nStop, hfail>>

\* ----------------------------------------------------------- pause, resume
\* Neosynth::pause
Pause(t) ==
    /\ t \in Callers
    /\ th[t].pc = "idle"
    /\ pstate' = PausedState(pstate)
    /\ pstate' # pstate
    /\ alone' = NoAlone
    /\ UNCHANGED aside
    /\ UNCHANGED <<queue, nextId, source, th, hist, nSpeak, nStop, hfail>>

\* Neosynth::resume
Resume(t) ==
    /\ t \in Callers
    /\ th[t].pc = "idle"
    /\ pstate' = ResumedState(pstate)
    /\ pstate' # pstate
    /\ alone' = NoAlone
    /\ UNCHANGED aside
    /\ UNCHANGED <<queue, nextId, source, th, hist, nSpeak, nStop, hfail>>

\* ----------------------------------------------------------------- player
\* the handler slot a notification is delivered on
FreeHandler == CHOOSE h \in Handlers : th[h].pc = "idle"

\* the player opens and buffers the source it was given
PlayerAdvance ==
    /\ \/ pstate = "Opening" /\ pstate' \in {"Buffering", "Playing"}
       \/ pstate = "Buffering" /\ pstate' = "Playing"
    /\ alone' = NoAlone
    /\ UNCHANGED aside
    /\ UNCHANGED <<queue, nextId, source, th, hist, nSpeak, nStop, hfail>>

\* the handler registered with player.MediaEnded is invoked: mixer.process_queue().ok()
MediaEnded ==
    /\ pstate = "Playing"
    /\ source > 0
    /\ \E h \in Handlers : th[h].pc = "idle"
    /\ pstate' = "None"
    /\ hist' = [hist EXCEPT !.ended = @ \cup {source}]
    /\ th' = [th EXCEPT ![FreeHandler] = [op |-> "handler", pc |-> "pq", elem |-> NoElem, pass |-> <<>>, ret |-> "none"]]
    /\ alone' = NoAlone
    /\ UNCHANGED aside
    /\ UNCHANGED <<queue, nextId, source, nSpeak, nStop, hfail>>

\* the handler registered with player.MediaFailed is invoked: mixer.process_queue().ok()
MediaFailed ==
    /\ SynthStateOf(pstate) = "Busy"
    /\ source > 0
    /\ \E h \in Handlers : th[h].pc = "idle"
    /\ pstate' = "None"
    /\ hist' = [hist EXCEPT !.ended = @ \cup {source}]
    /\ th' = [th EXCEPT ![FreeHandler] = [op |-> "handler", pc |-> "pq", elem |-> NoElem, pass |-> <<>>, ret |-> "none"]]
    /\ alone' = NoAlone
    /\ UNCHANGED aside
    /\ UNCHANGED <<queue, nextId, source, nSpeak, nStop, hfail>>

\* ---------------------------------------------------------- rate and voice
\* Neosynth::is_prosody_supported: UniversalApiContract 5.0 is present
is_prosody_supported == engine.prosody

\* Neosynth::get_rate
get_rate ==
    /\ call' = [call EXCEPT !.op = "get_rate", !.id = "none", !.ret = "ok",
                            !.got = IF ~is_prosody_supported THEN NoRate
                                    ELSE ReportedRate[engine.rate]]
    /\ UNCHANGED <<mixer, engine, events>>

\* a faulty variant of set_rate: the call reports Ok and leaves the engine's rate alone
set_rate_NoEffect(value, ok) ==
    /\ call' = [call EXCEPT !.op = "set_rate", !.id = "none", !.ret = "ok",
                            !.got = NoRate, !.set = TRUE, !.setr = value]
    /\ UNCHANGED <<mixer, engine, events>>

\* Neosynth::set_rate; ok: SetSpeakingRate accepts the value
set_rate(value, ok) ==
    /\ IF is_prosody_supported
       THEN IF ok
            THEN /\ engine' = [engine EXCEPT !.rate = ScaledRate[value]]
                 /\ call' = [call EXCEPT !.op = "set_rate", !.id = "none",
                                         !.ret = "ok", !.got = NoRate,
                                         !.set = TRUE, !.setr = value]
            ELSE /\ call' = [call EXCEPT !.op = "set_rate", !.id = "none",
                                         !.ret = "engine_error", !.got = NoRate]
                 /\ UNCHANGED engine
       ELSE /\ call' = [call EXCEPT !.op = "set_rate", !.id = "none",
                                    !.ret = "operation_error", !.got = NoRate]
            /\ UNCHANGED engine
    /\ UNCHANGED <<mixer, events>>

\* a faulty variant of set_voice_str: an unknown id selects the default voice
set_voice_str_FallsBack(id, ok) ==
    /\ engine' = [engine EXCEPT !.voice = IF id \in get_voices THEN id ELSE DefaultVoice]
    /\ call' = [call EXCEPT !.op = "set_voice_str", !.id = id, !.ret = "ok",
                            !.got = NoRate]
    /\ UNCHANGED <<mixer, events>>

\* Neosynth::set_voice_str: find the id among get_voices(), then set_voice;
\* ok: SetVoice accepts the voice
set_voice_str(id, ok) ==
    /\ IF id \in get_voices
       THEN IF ok
            THEN /\ engine' = [engine EXCEPT !.voice = id]
                 /\ call' = [call EXCEPT !.op = "set_voice_str", !.id = id,
                                         !.ret = "ok", !.got = NoRate]
            ELSE /\ call' = [call EXCEPT !.op = "set_voice_str", !.id = id,
                                         !.ret = "engine_error", !.got = NoRate]
                 /\ UNCHANGED engine
       ELSE /\ call' = [call EXCEPT !.op = "set_voice_str", !.id = id,
                                    !.ret = "operation_error", !.got = NoRate]
            /\ UNCHANGED engine
    /\ UNCHANGED <<mixer, events>>

\* --------------------------------------------------- PlaybackStateChanged
\* the player raises PlaybackStateChanged for a state it has not notified yet
RaiseStateChanged ==
    /\ pstate # events.reported
    /\ events' = [events EXCEPT !.reported = pstate, !.pending = @ + 1, !.raised = @ + 1]
    /\ UNCHANGED <<mixer, engine, call>>

\* the handler registered with PlaybackStateChanged is invoked and evaluates
\* mixer.get_state().unwrap()
StateChangedRead ==
    /\ events.pending > 0
    /\ events.seen = "none"
    /\ events' = [events EXCEPT !.pending = @ - 1, !.seen = get_state]
    /\ UNCHANGED <<mixer, engine, call>>

\* a faulty variant of StateChangedForward: a value the sink was told last is not repeated
StateChangedForward_OnlyChanges ==
    /\ events.seen # "none"
    /\ events' = IF events.seen = events.last
                 THEN [events EXCEPT !.seen = "none"]
                 ELSE [events EXCEPT !.seen = "none", !.told = @ + 1, !.last = events.seen]
    /\ UNCHANGED <<mixer, engine, call>>

\* mixer.event_sink.on_state_changed(<the value read>); Ok(())
StateChangedForward ==
    /\ events.seen # "none"
    /\ events' = [events EXCEPT !.seen = "none", !.told = @ + 1, !.last = events.seen]
    /\ UNCHANGED <<mixer, engine, call>>

\* ------------------------------------------------------------ specification
\* the steps of a running speak call, of a dispatch, of the player and of its handlers
Draining ==
    \/ \E t \in Callers : SpeakGetState(t)
    \/ \E t \in Callers : SpeakPop(t)
    \/ \E t \in Threads : ProcessQueue(t)
    \/ \E t \in Threads : NotifyReady(t)
    \/ \E t \in Threads : NotifyBookmark(t)
    \/ \E t \in Threads, ok \in BOOLEAN : Synthesize(t, ok)
    \/ \E t \in Threads, ok \in BOOLEAN : OpenFile(t, ok)
    \/ \E t \in Threads, ok \in BOOLEAN : SetSource(t, ok)
    \/ PlayerAdvance
    \/ MediaEnded
    \/ MediaFailed

\* the steps of a running stop call
Stopping ==
    \/ \E t \in Callers : StopPause(t)
    \/ \E t \in Callers : StopDrain(t)
    \/ \E t \in Callers : StopSetEmpty(t)

Running == Draining \/ Stopping

\* every interleaving of two calling threads, the handlers and the player
Next ==
    \/ \E t \in Callers : nSpeak < MaxSpeaks /\ SpeakBegin(t)
    \/ \E t \in Callers, k \in ElementKinds : nextId <= MaxElems /\ SpeakPush(t, k)
    \/ \E t \in Callers : nStop < MaxStops /\ StopBegin(t)
    \/ \E t \in Callers : Pause(t)
    \/ \E t \in Callers : Resume(t)
    \/ Running

Spec == Init /\ [][Next]_vars

\* one calling thread, whose calls follow one another, with the handlers and the player
NextSeq ==
    \/ nSpeak < SeqSpeaks /\ SpeakBegin("c1")
    \/ \E k \in ElementKinds : nextId <= SeqElems /\ SpeakPush("c1", k)
    \/ nStop < SeqStops /\ StopBegin("c1")
    \/ Pause("c1")
    \/ Resume("c1")
    \/ Running

SpecSeq == Init /\ [][NextSeq]_vars

\* rate and voice calls, made at any moment of one speak call and its drain;
\* the platform may or may not have the prosody contract
InitFacade ==
    /\ MixerInit
    /\ \E p \in BOOLEAN : engine = NewEngine(p)
    /\ call = NoCall
    /\ events = NoEvents

NextFacade ==
    \/ get_rate
    \/ \E value \in RateValues, ok \in BOOLEAN : set_rate(value, ok)
    \/ \E id \in VoiceIds, ok \in BOOLEAN : set_voice_str(id, ok)
    \/ nSpeak < ApiSpeaks /\ SpeakBegin("c1")
    \/ \E k \in ElementKinds : nextId <= ApiElems /\ SpeakPush("c1", k)
    \/ Draining

SpecFacade == InitFacade /\ [][NextFacade]_vars

\* one calling thread with the handlers and the player, and the player's
\* PlaybackStateChanged notifications with their handler
NextEvents ==
    \/ nSpeak < ApiSpeaks /\ SpeakBegin("c1")
    \/ \E k \in ElementKinds : nextId <= ApiElems /\ SpeakPush("c1", k)
    \/ nStop < ApiStops /\ StopBegin("c1")
    \/ Pause("c1")
    \/ Resume("c1")
    \/ Running
    \/ events.raised < MaxEvents /\ RaiseStateChanged
    \/ StateChangedRead
    \/ StateChangedForward

SpecEvents == Init /\ [][NextEvents]_vars

TypeOK ==
    /\ pstate \in PlaybackStates
    /\ source \in {NoSource, EmptySource} \cup Ids
    /\ nextId \in Ids \cup {1 + MaxElems + SeqElems}
    /\ \A i \in 1..Len(queue) : queue[i].kind \in ElementKinds

\* ------------------------------------------------- vocabulary of the claims
QueueIds == {queue[i].id : i \in 1..Len(queue)}
Held == {th[t].elem.id : t \in Threads} \ {0}
Dispatched == {hist.disp[i] : i \in 1..Len(hist.disp)}
Pushed == 1..(nextId - 1)
\* popped by a dispatch that then failed to synthesize, open or set the source
Errored == {i \in Pushed : hist.pops[i] > 0 /\ i \notin (Dispatched \cup Held \cup hist.dropped)}
Quiet == \A t \in Threads : th[t].pc = "idle"
\* an element's SetSource is applied in this step
SourceSet == source' # source /\ source' > 0
\* thread t pops an element for dispatch in this step
Pops(t) == Len(th'[t].pass) > Len(th[t].pass)

\* ------------------------------------------------------------------ claims

\* C1: once SetSource has been applied for a popped element, no other
\* element's SetSource is applied before the MediaEnded / MediaFailed
\* notification of that source has been delivered (stop's empty source
\* excepted).
C1_OnePlaybackAtATime ==
    [][SourceSet => (source > 0 => source \in hist.ended)]_vars

\* C2: the elements pushed by one speak call made while the player is Ready
\* and the queue empty, with no other speak or stop and no failing dispatch,
\* are dispatched (bookmark notified or SetSource applied) in push order,
\* each once, and all of them by the time the drain has come to rest.
C2_InPushOrder ==
    (nSpeak = 1 /\ nStop = 0 /\ Errored = {}) =>
        /\ \A i \in 1..Len(hist.disp) : hist.disp[i] = i
        /\ (Quiet /\ get_state = "Ready" => Len(hist.disp) = nextId - 1)

C2_Witness ==
    /\ nSpeak = 1 /\ nStop = 0 /\ Errored = {}
    /\ hist.disp = <<1, 2, 3>>
    /\ hist.bms # {} /\ hist.bms # {1, 2, 3}
    /\ Quiet /\ get_state = "Ready"

\* C3 as stated: after a speak call made while Busy or Paused has only
\* enqueued, the next pop is made inside a MediaEnded / MediaFailed handler
\* or by stop(), never by a speak call.
C3_NextPopByNotification ==
    [][hist.deferred => \A t \in Callers : ~(th[t].op = "speak" /\ Pops(t))]_vars

\* thread t, in speak, reads the playback state in this step
C3_ReadsState(t) == th[t].op = "speak" /\ th[t].pc = "push" /\ th'[t] # th[t]

\* C3 as amended: a speak call that reads Busy or Paused returns Ok having
\* popped nothing, notified nothing and called neither synthesize nor
\* SetSource; each of its pushes grows the queue by exactly one element at
\* the tail; and a speak call pops only after it has read Ready.
C3_OnlyEnqueues ==
    [][/\ \A t \in Callers :
            (C3_ReadsState(t) /\ get_state # "Ready") =>
                /\ th'[t].pc = "idle" /\ th'[t].ret = "ok"
                /\ queue' = queue /\ source' = source /\ pstate' = pstate
                /\ hist'.pops = hist.pops /\ hist'.uses = hist.uses
                /\ hist'.disp = hist.disp
       /\ (nextId' # nextId =>
                /\ Len(queue') = Len(queue) + 1
                /\ SubSeq(queue', 1, Len(queue)) = queue
                /\ hist' = hist /\ source' = source /\ th' = th)
       /\ \A t \in Callers :
            (th[t].op = "speak" /\ Pops(t)) =>
                \/ th[t].pc = "spop"
                \/ th[t].pc = "pq" /\ th[t].pass # <<>>
      ]_vars

C3_Witness == hist.deferred /\ Len(queue) >= 2 /\ get_state = "Paused" /\ Quiet

\* C4: after a synthesis, file-open or SetSource failure inside a dispatch
\* started by a MediaEnded / MediaFailed notification, and with no speak or
\* stop called since, elements still queued are not left behind: a dispatch
\* is running or the player holds a source whose notification is to come.
C4_DrainContinues ==
    (hfail /\ queue # <<>>) => (~Quiet \/ pstate # "None")

\* position of x in sequence q
PosIn(q, x) == CHOOSE i \in 1..Len(q) : q[i] = x

\* within the pass of thread t (the elements popped since its dispatch
\* began), every element but the last is a Bookmark the sink has been
\* notified of, in queue order; the thread is about to pop again only when
\* the last one is too
C5_PassShape(t) ==
    LET p == th[t].pass IN
    /\ \A i \in 1..(Len(p) - 1) : p[i] \in hist.bms /\ p[i] < p[i + 1]
    /\ \A i, j \in 1..Len(p) :
            (i < j /\ p[j] \in Dispatched) => PosIn(hist.disp, p[i]) < PosIn(hist.disp, p[j])
    /\ (p # <<>> /\ th[t].pc \in {"pq", "ready"}) => p[Len(p)] \in hist.bms

\* C5: a dispatch that pops a Bookmark notifies the sink of it and, in the
\* same call, goes on to pop again without waiting for the player; a pass
\* that SetSource ends consists of Bookmarks, notified in queue order, and
\* then the element set as source; a pass of Bookmarks that empties the
\* queue can only end by notifying Ready.
C5_BookmarkInline ==
    [][\A t \in Threads :
        /\ C5_PassShape(t)'
        /\ (th[t].pc = "bm" /\ th'[t] # th[t]) =>
                /\ hist'.disp = Append(hist.disp, th[t].elem.id)
                /\ th'[t].pc = "pq" /\ th'[t].op = th[t].op
                /\ th'[t].pass = th[t].pass
                /\ pstate' = pstate /\ source' = source /\ queue' = queue
        /\ (th[t].pc = "setsrc" /\ SourceSet /\ th'[t] # th[t]) =>
                /\ source' = th[t].pass[Len(th[t].pass)]
                /\ \A i \in 1..(Len(th[t].pass) - 1) :
                        PosIn(hist'.disp, th[t].pass[i]) < PosIn(hist'.disp, source')
        /\ (th[t].pc # "idle" /\ th'[t].pc = "idle" /\ th[t].pass # <<>>
                /\ th[t].pass[Len(th[t].pass)] \in hist.bms) =>
                th[t].pc = "ready"
      ]_vars

\* two Bookmarks and then an audio element popped in one pass
C5_Witness ==
    \E t \in Threads :
        /\ Len(th[t].pass) = 3 /\ th[t].pc = "setsrc"
        /\ {th[t].pass[1], th[t].pass[2]} \subseteq hist.bms

\* a pass of Bookmarks that emptied the queue, about to notify Ready
C5_WitnessReady ==
    \E t \in Threads :
        /\ Len(th[t].pass) >= 2 /\ th[t].pc = "ready"
        /\ \A i \in 1..Len(th[t].pass) : th[t].pass[i] \in hist.bms

\* what is known of element i: whether it is a Bookmark or produces audio
IsBookmark(i) ==
    \/ i \in hist.bms
    \/ \E j \in 1..Len(queue) : queue[j] = [id |-> i, kind |-> "Bookmark"]
    \/ \E t \in Threads : th[t].elem = [id |-> i, kind |-> "Bookmark"]
IsAudio(i) ==
    \/ i \in Dispatched \ hist.bms
    \/ \E j \in 1..Len(queue) : queue[j].id = i /\ queue[j].kind # "Bookmark"
    \/ \E t \in Threads : th[t].elem.id = i /\ th[t].elem.kind # "Bookmark"

\* the one call so far is speak([X, Bookmark(b), Y]) from Ready, it has
\* pushed its elements, and no synthesize / open / SetSource has failed
C6_Scenario ==
    /\ nSpeak = 1 /\ nStop = 0 /\ Errored = {}
    /\ nextId = 4 /\ th["c1"].pc # "push"
    /\ IsAudio(1) /\ IsBookmark(2) /\ IsAudio(3)

\* the sink is notified Ready in this step
ReadyNotified == \E t \in Threads : th[t].pc = "ready" /\ th'[t].pc = "idle"

\* C6: for speak([X, Bookmark(b), Y]) from Ready, X is set as source by the
\* speak call; b is notified by a handler after the notification of X and
\* before Y is set as source; Ready is notified only after the notification
\* of Y, with the queue empty and everything dispatched, and nothing is
\* dispatched out of that order.
C6_EndToEnd ==
    [][C6_Scenario' =>
        /\ \A i \in 1..Len(hist'.disp) : hist'.disp[i] = i
        /\ (SourceSet /\ source' = 1) =>
                th["c1"].op = "speak" /\ th["c1"].pc = "setsrc" /\ th'["c1"].pc = "idle"
        /\ (hist'.bms # hist.bms) =>
                /\ 1 \in hist.ended /\ hist.disp = <<1>>
                /\ \E h \in Handlers : th[h].pc = "bm" /\ th'[h].pc = "pq"
        /\ (SourceSet /\ source' = 3) => 2 \in hist.bms /\ 1 \in hist.ended
        /\ ReadyNotified =>
                3 \in hist.ended /\ queue = <<>> /\ hist.disp = <<1, 2, 3>>
      ]_vars

C6_Witness ==
    C6_Scenario /\ Quiet /\ hist.disp = <<1, 2, 3>> /\ 3 \in hist.ended /\ pstate = "None"

\* C7: the dispatch stop() performs at its end finds the queue empty: it
\* pops no element and goes on to notify Ready, whatever runs concurrently.
C7_StopFindsQueueEmpty ==
    [][\A t \in Callers :
        (th[t].op = "stop" /\ th[t].pc = "pq" /\ th'[t] # th[t]) =>
            /\ th'[t].pc = "ready"
            /\ queue' = queue /\ hist'.pops = hist.pops
      ]_vars

\* C8: of two stop() calls made one after the other by a thread, with no
\* step of any other thread or of the player during or between them, each
\* ends by notifying Ready with the queue empty, and the second leaves the
\* queue, the player's source and the playback state as the first left them.
C8_StopIdempotent ==
    /\ alone.n >= 1 => alone.first[1] = <<>> /\ alone.first[4] = "ready"
    /\ alone.n = 2 =>
            /\ alone.second = alone.first
            /\ alone.second = <<queue, source, pstate, "ready">>
            /\ source = EmptySource

\* both calls have returned, and the first had elements to drop
C8_Witness == alone.n = 2 /\ hist.dropped # {} /\ Len(hist.disp) >= 1

\* the dispatch of thread t, in speak, fails in this step
SpeakFails(t) ==
    /\ th[t].op = "speak"
    /\ th[t].pc \in {"synth", "open", "setsrc"}
    /\ th'[t].pc = "idle"
    /\ source' = source

\* C9 as stated, for the first speak call (nothing queued before it, no
\* other popper yet): when its dispatch fails, every element it pushed other
\* than the failing one is still in the queue.
C9_AllOthersRemain ==
    [][\A t \in Callers :
        (SpeakFails(t) /\ nSpeak = 1 /\ nStop = 0) =>
            QueueIds' = Pushed \ {th[t].elem.id}
      ]_vars

\* an element taken off the queue is never in it again and is synthesized
\* or opened at most once; the queue keeps the push order
C9_NeverRequeued ==
    /\ \A i \in Pushed :
            hist.pops[i] >= 1 => i \notin QueueIds /\ hist.uses[i] <= 1
    /\ \A i, j \in 1..Len(queue) : i < j => queue[i].id < queue[j].id

\* C9 as amended: when the dispatch inside speak fails, speak returns the
\* error, the failing element is not in the queue and never comes back or
\* gets retried, and the failure leaves the queue as it was, so the elements
\* still queued keep their relative order.
C9_FailedSpeakDispatch ==
    [][/\ \A t \in Callers :
            SpeakFails(t) =>
                /\ th'[t].ret = "err"
                /\ queue' = queue
                /\ th[t].elem.id \notin QueueIds'
                /\ hist'.disp = hist.disp /\ pstate' = pstate
       /\ C9_NeverRequeued'
      ]_vars

C9_Witness ==
    \E t \in Callers :
        /\ th[t].op = "speak" /\ th[t].pc = "idle" /\ th[t].ret = "err"
        /\ Len(queue) >= 1 /\ Errored # {}

\* C10: in every interleaving of speak calls, handlers and stop, an element
\* leaves the queue at most once (by one dispatch or one step of stop's
\* drain), is held by at most one thread, and is synthesized or opened,
\* bookmark-notified or set as source at most once; what stop dropped is
\* never dispatched.
C10_ConsumedOnce ==
    /\ \A i \in Ids : hist.pops[i] <= 1 /\ hist.uses[i] <= 1
    /\ \A i \in Pushed : hist.pops[i] = 0 <=> i \in QueueIds
    /\ \A i, j \in 1..Len(queue) : i # j => queue[i].id # queue[j].id
    /\ \A i, j \in 1..Len(hist.disp) : i # j => hist.disp[i] # hist.disp[j]
    /\ \A t, u \in Threads : (t # u /\ th[t].elem.id # 0) => th[t].elem.id # th[u].elem.id
    /\ Held \cap QueueIds = {}
    /\ Dispatched \cap (QueueIds \cup Held \cup hist.dropped) = {}
    /\ hist.dropped \cap Held = {}

\* two speak calls and a stop have run, and elements went each way
C10_Witness ==
    /\ nSpeak = 2 /\ nStop = 1 /\ nextId = 3 /\ queue = <<>> /\ Quiet
    /\ hist.dropped # {} /\ Dispatched # {}

\* C11: set_voice_str with an id that is not among the enumerated voices
\* fails with the operation error, leaves the selected voice (and the rate)
\* as they were, and neither pushes nor pops the queue nor starts or
\* advances a dispatch, whatever the queue and the player are doing.
C11_InvalidVoiceToken ==
    [][(call' # call /\ call'.op = "set_voice_str" /\ call'.id \notin get_voices) =>
            /\ call'.ret = "operation_error"
            /\ engine' = engine
            /\ queue' = queue /\ nextId' = nextId /\ th' = th /\ hist' = hist
            /\ source' = source /\ pstate' = pstate
      ]_vars

\* the call failed while another voice than the default was selected, an
\* element was queued and the player was Ready
C11_Witness ==
    /\ call.op = "set_voice_str" /\ call.id \notin get_voices /\ call.ret = "operation_error"
    /\ engine.voice # DefaultVoice
    /\ queue # <<>> /\ get_state = "Ready"

\* C12 as stated: with the prosody contract, get_rate() after set_rate(R)
\* returns R; without it, get_rate() returns -1.0 and set_rate(R) fails with
\* the operation error and leaves the engine's rate as it was.
C12_RateRoundTrip ==
    /\ (is_prosody_supported /\ call.op = "get_rate" /\ call.set) => call.got = call.setr
    /\ (~is_prosody_supported /\ call.op = "get_rate") => call.got = NoRate
    /\ (~is_prosody_supported /\ call.op = "set_rate") =>
            call.ret = "operation_error" /\ engine.rate = DefaultRate

\* x and y are the same f64 or neighbours: at most one unit in the last place apart
F64Near(x, y) ==
    /\ x.neg = y.neg /\ x.e = y.e
    /\ \/ F64Sig(x) = F64Sig(y)
       \/ BigAdd(F64Sig(x), BigOf(1)) = F64Sig(y)
       \/ BigAdd(F64Sig(y), BigOf(1)) = F64Sig(x)

\* C12 as amended: with the prosody contract, get_rate() after a set_rate(R)
\* that returned Ok (and no other since) returns (R * 0.06) / 0.06 computed in
\* f64, which is R or an f64 next to R, and is R itself for 0.5, 1.0, 2.0
\* and 50.0; a set_rate the engine rejects returns that error and leaves the
\* rate as the last accepted call set it.  Without the contract, get_rate()
\* returns -1.0 and set_rate(R) fails with the operation error, the engine's
\* rate unchanged.
C12_RateWithinTolerance ==
    /\ (is_prosody_supported /\ call.op = "get_rate" /\ call.set) =>
            /\ F64Near(call.got, call.setr)
            /\ call.setr \in RateValues \ {F64Of(9)} => call.got = call.setr
    /\ (is_prosody_supported /\ call.op = "set_rate") =>
            /\ call.ret \in {"ok", "engine_error"}
            /\ call.ret = "ok" => call.set
    /\ engine.rate = IF call.set THEN ScaledRate[call.setr] ELSE DefaultRate
    /\ (~is_prosody_supported /\ call.op = "get_rate") => call.got = NoRate
    /\ (~is_prosody_supported /\ call.op = "set_rate") =>
            call.ret = "operation_error" /\ ~call.set

\* get_rate() answered after set_rate(9.0), and not with 9.0
C12_Witness ==
    /\ is_prosody_supported /\ call.op = "get_rate" /\ call.set
    /\ call.setr = F64Of(9) /\ call.got # call.setr

\* C13: in every interleaving of dispatches, the order in which popped
\* elements take effect (SetSource applied or bookmark notified) is the order
\* in which they were popped; the queue is popped in push order, so the
\* elements take effect in the order of their ids.
C13_EffectOrderIsPopOrder ==
    \A i, j \in 1..Len(hist.disp) : i < j => hist.disp[i] < hist.disp[j]

\* the player holds the source of an element whose notification is still to come
SourcePending == source > 0 /\ pstate # "None"

\* C14: when a dispatch that found the queue empty notifies the sink of
\* Ready, the queue is empty, no dispatch holds a popped element, and the
\* player is not opening, buffering, playing or pausing an element's source.
C14_ReadyMeansDrained ==
    [][ReadyNotified => (queue = <<>> /\ Held = {} /\ ~SourcePending)]_vars

\* thread t tries to pop in this step and finds the queue empty
FindsQueueEmpty(t) == th[t].pc \in {"spop", "pq"} /\ queue = <<>> /\ th'[t] # th[t]

C16_NoStranding ==
    queue # <<>> => (~Quiet \/ SourcePending)

\* C17: once nothing is left to happen (no operation or handler is running,
\* the player is neither busy nor paused), the queue is empty and every
\* pushed element has been dispatched, has failed or was discarded by stop.
C17_DrainTerminates ==
    (Quiet /\ get_state = "Ready") =>
        /\ queue = <<>>
        /\ Pushed \subseteq (Dispatched \cup Errored \cup hist.dropped)

\* thread t, in stop, ends its drain in this step
DrainEnds(t) == th[t].op = "stop" /\ th[t].pc = "drain" /\ th'[t].pc = "empty"

\* C18: an element stop() discarded is never synthesized, opened, set as
\* source or bookmark-notified; when the drain of a stop() ends, every element
\* enqueued so far is discarded, already dispatched or failed, or in the hands
\* of a dispatch that popped it before; and SetSource only ever applies the
\* element its dispatch popped, so the only elements enqueued before the
\* drain ended whose SetSource comes after stop()'s empty source are those.
C18_StopCancelsQueuedOnly ==
    [][/\ \A i \in hist'.dropped :
            hist'.uses[i] = 0 /\ i \notin Dispatched' /\ i \notin Held' /\ source' # i
       /\ \A t \in Callers :
            DrainEnds(t) =>
                /\ queue = <<>>
                /\ Pushed \subseteq (hist.dropped \cup Dispatched \cup Errored \cup Held)
       /\ SourceSet =>
            \E t \in Threads :
                /\ th[t].pc = "setsrc" /\ th[t].elem.id = source'
                /\ hist.pops[source'] = 1 /\ source' \notin QueueIds
      ]_vars

\* the stop call has returned, and the source is an element pushed before
\* one that the stop discarded: set after stop()'s empty source by a dispatch
\* that had popped it before the drain
C18_Witness ==
    /\ nStop = 1 /\ \A t \in Callers : th[t].op = "stop" => th[t].pc = "idle"
    /\ source > 0
    /\ \E j \in hist.dropped : source < j

\* the SynthState of a player state, as the claims state it
Projected(ps) ==
    CASE ps \in {"Buffering", "Opening", "Playing"} -> "Busy"
      [] ps = "Paused" -> "Paused"
      [] OTHER -> "Ready"

\* C19: for each PlaybackStateChanged the player raises, the handler reads
\* the state and notifies the sink exactly once, of the projection of the
\* state it read, whatever that value is; neither step pushes or pops the
\* queue, moves a dispatch or touches the player.
C19_ForwardedUnconditionally ==
    [][/\ events'.raised = events'.pending + events'.told
                            + (IF events'.seen = "none" THEN 0 ELSE 1)
       /\ (events'.seen # events.seen /\ events'.seen # "none") =>
                /\ events'.seen = Projected(pstate)
                /\ events'.pending = events.pending - 1
                /\ UNCHANGED <<mixer, engine, call>>
       /\ (events'.told # events.told) =>
                /\ events'.told = events.told + 1
                /\ events.seen # "none" /\ events'.last = events.seen
                /\ events'.seen = "none"
                /\ UNCHANGED <<mixer, engine, call>>
      ]_vars

\* every notification raised has been forwarded, the last one as Paused
\* after a pause() (no stop was called)
C19_Witness ==
    /\ events.raised = MaxEvents /\ events.told = MaxEvents
    /\ events.last = "Paused" /\ nStop = 0

\* C20: get_state() is Busy exactly when the player state is Buffering,
\* Opening or Playing, Paused exactly when it is Paused, and Ready for every
\* other state; speak decides on the state it reads in that step, after its
\* last push: it goes on to pop exactly when that state projects to Ready,
\* and it never pushes after the read.
C20_LiveProjection ==
    [][/\ get_state = Projected(pstate)
       /\ get_state' = Projected(pstate')
       /\ \A t \in Callers :
            C3_ReadsState(t) =>
                /\ th'[t].pc = (IF Projected(pstate) = "Ready" THEN "spop" ELSE "idle")
                /\ queue' = queue /\ nextId' = nextId /\ pstate' = pstate
       /\ (nextId' # nextId) => (th["c1"].op = "speak" /\ th["c1"].pc = "push")
      ]_vars

\* a speak call made while the player was paused: it pushed, read Paused and
\* returned, after an earlier call had read Ready
C20_Witness ==
    /\ nSpeak = 2 /\ pstate = "Paused" /\ hist.deferred /\ Quiet
    /\ Len(hist.disp) >= 1 /\ Len(queue) >= 1
====
